---------------------------- MODULE Spec2Model ----------------------------
(***************************************************************************)
(* A model of the Solar Cell Simulation Engine (Navapatra/SolarSimulation). *)
(*                                                                         *)
(*   src/app.py                  the Streamlit script: the stack-building   *)
(*                               loop, the feasibility check and the Run    *)
(*                               Simulation handler                         *)
(*   src/simulator/electrical.py simulate_electrical                        *)
(*                                                                         *)
(* simulate_electrical computes with Python floats (IEEE-754 binary64) and  *)
(* rounds with Python's round().  The first part of the module is binary64  *)
(* arithmetic on positive numbers, with the 53-bit significand held as a    *)
(* little-endian sequence of 15-bit limbs (TLC's integers have 32 bits).    *)
(***************************************************************************)
EXTENDS Integers, Sequences, FiniteSets, TLC

(***************************************************************************)
(* Natural numbers of any size: little-endian sequences of limbs.  A value *)
(* used more than once is passed as an operator argument, which TLC        *)
(* evaluates once.                                                         *)
(***************************************************************************)
Base == 2^15

BigZero == << >>

\* The number of bits of a machine-size natural number.
RECURSIVE IntBitLen(_)
IntBitLen(n) == IF n = 0 THEN 0 ELSE 1 + IntBitLen(n \div 2)

\* The bits of one limb.
LimbBits == IntBitLen(Base - 1)

\* The limbs of a machine-size natural number.
RECURSIVE BigFromInt(_)
BigFromInt(n) == IF n = 0 THEN << >> ELSE <<n % Base>> \o BigFromInt(n \div Base)

\* The sequence without its leading (most significant) zero limbs.
RECURSIVE BigTrim(_)
BigTrim(a) ==
    IF Len(a) = 0 THEN a
    ELSE IF a[Len(a)] = 0 THEN BigTrim(SubSeq(a, 1, Len(a) - 1))
    ELSE a

BigIsZero(a) == \A i \in 1..Len(a) : a[i] = 0

\* The value of a number known to fit in a machine integer.
RECURSIVE BigToInt(_)
BigToInt(a) == IF Len(a) = 0 THEN 0 ELSE a[1] + Base * BigToInt(Tail(a))

\* a * k + carry for 0 <= k < 2^16: limb i of a is taken with the carry so far.
RECURSIVE BigMulLoop(_, _, _, _, _)
BigMulEmit(a, k, i, t, acc) == BigMulLoop(a, k, i + 1, t \div Base, Append(acc, t % Base))
BigMulLoop(a, k, i, carry, acc) ==
    IF i > Len(a) THEN acc \o BigFromInt(carry)
    ELSE BigMulEmit(a, k, i, a[i] * k + carry, acc)

BigMulSmall(a, k) == BigTrim(BigMulLoop(a, k, 1, 0, << >>))

RECURSIVE BigAddLoop(_, _, _, _, _)
BigAddEmit(a, b, i, t, acc) == BigAddLoop(a, b, i + 1, t \div Base, Append(acc, t % Base))
BigAddLoop(a, b, i, carry, acc) ==
    IF i > Len(a) /\ i > Len(b) THEN acc \o BigFromInt(carry)
    ELSE BigAddEmit(a, b, i,
                    (IF i > Len(a) THEN 0 ELSE a[i]) + (IF i > Len(b) THEN 0 ELSE b[i]) + carry,
                    acc)

BigAdd(a, b) == BigTrim(BigAddLoop(a, b, 1, 0, << >>))

\* Long division by 0 < d < 2^16, from the most significant limb down:
\* [q |-> the quotient's limbs, r |-> the remainder].
RECURSIVE BigDivLoop(_, _, _, _, _)
BigDivEmit(a, d, i, t, acc) == BigDivLoop(a, d, i - 1, t % d, <<t \div d>> \o acc)
BigDivLoop(a, d, i, rem, acc) ==
    IF i = 0 THEN [q |-> BigTrim(acc), r |-> rem]
    ELSE BigDivEmit(a, d, i, rem * Base + a[i], acc)

BigDivSmall(a, d) == BigDivLoop(a, d, Len(a), 0, << >>)

BigBitLenTrimmed(t) ==
    IF Len(t) = 0 THEN 0 ELSE (Len(t) - 1) * LimbBits + IntBitLen(t[Len(t)])

BigBitLen(a) == BigBitLenTrimmed(BigTrim(a))

RECURSIVE ZeroLimbs(_)
ZeroLimbs(n) == IF n <= 0 THEN << >> ELSE <<0>> \o ZeroLimbs(n - 1)

\* a * 2^s.
BigShl(a, s) ==
    BigTrim(ZeroLimbs(s \div LimbBits) \o BigMulSmall(a, 2^(s % LimbBits)))


\* a \div 2^s for s >= 1, with the bits shifted out: r is the highest of
\* them and lost says whether a lower one is set.  The highest is bit b - 1
\* of limb n + 1, or, when b = 0, the top bit of limb n (n = s \div LimbBits,
\* b = s % LimbBits).
Limb(a, k) == IF 1 <= k /\ k <= Len(a) THEN a[k] ELSE 0

BigShrLow(a, n, b) ==
    IF b = 0
    THEN [r    |-> Limb(a, n) \div (Base \div 2),
          lost |-> (Limb(a, n) % (Base \div 2) # 0) \/
                   (\E k \in 1..(n - 1) : Limb(a, k) # 0)]
    ELSE [r    |-> (Limb(a, n + 1) % 2^b) \div 2^(b - 1),
          lost |-> (Limb(a, n + 1) % 2^(b - 1) # 0) \/
                   (\E k \in 1..n : Limb(a, k) # 0)]

\* Limb k of the quotient takes its low bits from limb n + k of a and its
\* high bits from limb n + k + 1.
RECURSIVE BigShrLoop(_, _, _, _, _)
BigShrLoop(a, n, b, k, acc) ==
    IF n + k > Len(a) THEN acc
    ELSE BigShrLoop(a, n, b, k + 1,
                    Append(acc, (a[n + k] \div 2^b) +
                                (Limb(a, n + k + 1) % 2^b) * 2^(LimbBits - b)))

BigShrHigh(a, n, b) == BigTrim(BigShrLoop(a, n, b, 1, << >>))

BigShrParts(q, low) == [q |-> q, r |-> low.r, lost |-> low.lost]

BigShr(a, s) ==
    BigShrParts(BigShrHigh(a, s \div LimbBits, s % LimbBits),
                BigShrLow(a, s \div LimbBits, s % LimbBits))

(***************************************************************************)
(* Positive binary64 numbers: [m |-> significand, e |-> exponent], the     *)
(* value m * 2^e with 2^52 <= m < 2^53; zero is [m |-> << >>, e |-> 0].    *)
(* Every operation rounds its exact result to nearest, ties to even.       *)
(***************************************************************************)
SignificandBits == 53

FZero == [m |-> BigZero, e |-> 0]

\* The significand q at exponent e, renormalised when rounding up carried
\* into bit 54 (q is then 2^53).
FCarry(q, e) ==
    IF BigBitLen(q) > SignificandBits
    THEN [m |-> BigShr(q, 1).q, e |-> e + 1]
    ELSE [m |-> q, e |-> e]

\* sh = [q |-> the kept bits, r |-> the first dropped bit, lost |-> whether a
\* lower dropped bit is set].  Nearest, ties to even.
FRoundShift(sh, sticky, e) ==
    IF sh.r = 1 /\ (sh.lost \/ sticky \/ sh.q[1] % 2 = 1)
    THEN FCarry(BigAdd(sh.q, <<1>>), e)
    ELSE [m |-> sh.q, e |-> e]

FRoundLen(n, e, sticky, len) ==
    IF len = 0 THEN FZero
    ELSE IF len <= SignificandBits
    THEN [m |-> BigShl(n, SignificandBits - len), e |-> e - (SignificandBits - len)]
    ELSE FRoundShift(BigShr(n, len - SignificandBits), sticky,
                     e + (len - SignificandBits))

\* The binary64 nearest to (n + f) * 2^e, where 0 <= f < 1 and sticky says
\* whether f > 0; with sticky, n must have at least 55 bits.
FRound(n, e, sticky) == FRoundLen(n, e, sticky, BigBitLen(n))

\* The binary64 nearest to num / den: a decimal literal such as 0.005 = 5/1000,
\* or the conversion of an int (den = 1).
\* The quotient is taken with 2 * SignificandBits fraction bits (whole limbs),
\* far more than the 55 bits FRound needs.
GuardLimbs == (2 * SignificandBits) \div LimbBits
FRatioOf(d) == FRound(d.q, -(GuardLimbs * LimbBits), d.r # 0)
FRatio(num, den) == FRatioOf(BigDivSmall(ZeroLimbs(GuardLimbs) \o BigFromInt(num), den))

FInt(k) == FRatio(k, 1)

\* x * k for an int 0 <= k < 2^16 (the int converts to binary64 exactly).
FMulInt(x, k) == FRound(BigMulSmall(x.m, k), x.e, FALSE)

\* x / d for an int 0 < d < 2^16.
FDivOf(q, e) == FRound(q.q, e, q.r # 0)
FDivInt(x, d) == FDivOf(BigDivSmall(ZeroLimbs(2) \o x.m, d), x.e - 2 * LimbBits)

\* x + y.
FAdd(x, y) ==
    IF BigIsZero(x.m) THEN y
    ELSE IF BigIsZero(y.m) THEN x
    ELSE IF x.e >= y.e
    THEN FRound(BigAdd(BigShl(x.m, x.e - y.e), y.m), y.e, FALSE)
    ELSE FRound(BigAdd(BigShl(y.m, y.e - x.e), x.m), x.e, FALSE)

\* Python's round(x, ndigits) for x >= 0 with scale = 10^ndigits: the decimal
\* with ndigits places nearest to the exact value of x, ties to even, given as
\* the integer round(x, ndigits) * scale.
PyRoundBit(r, inexact, q) == IF r = 1 /\ (inexact \/ q % 2 = 1) THEN q + 1 ELSE q
PyRoundShift(sh) == PyRoundBit(sh.r, sh.lost, BigToInt(sh.q))
PyRound(x, scale) ==
    IF BigIsZero(x.m) THEN 0
    ELSE IF x.e >= 0 THEN BigToInt(BigShl(BigMulSmall(x.m, scale), x.e))
    ELSE PyRoundShift(BigShr(BigMulSmall(x.m, scale), -x.e))

(***************************************************************************)
(* src/simulator/electrical.py                                             *)
(*                                                                         *)
(* A layer is a record [role, material, thickness, toxicity] (the dict of  *)
(* app.py line 39) and a stack is a sequence of layers.  A rounded result  *)
(* is held as the integer number of its last decimal place: pce and voc in *)
(* hundredths, jsc in tenths.  An iv_curve point is the unrounded binary64. *)
(***************************************************************************)
IvPoints == 100

RECURSIVE SumThickness(_, _)
SumThickness(stack, k) ==
    IF k > Len(stack) THEN 0 ELSE stack[k].thickness + SumThickness(stack, k + 1)

\* line 3: sum(layer["thickness"] for layer in layers)
total_thickness(stack) == SumThickness(stack, 1)

\* line 4: len(set(layer["material"] for layer in layers))
unique_materials(stack) == Cardinality({stack[k].material : k \in 1..Len(stack)})

\* line 7: [i * 0.05 + 0.01 * total_thickness / 1000 for i in range(100)];
\* point k of the sequence is the list's element i = k - 1.  The literal 0.05
\* and the second term, the same for every i, are evaluated once.
IvOffset(total) == FDivInt(FMulInt(FRatio(1, 100), total), 1000)
IvCurveFrom(step, offset) ==
    [k \in 1..IvPoints |-> FAdd(FMulInt(step, k - 1), offset)]
IvCurve(total) == IvCurveFrom(FRatio(5, 100), IvOffset(total))

\* A sign slip in line 10, in exact decimal arithmetic (hundredths).
PceSignSlip(total, unique) == (10000 + 100 * unique - 5 * total) \div 10

\* A missing base term in line 10.
PceNoBase(total, unique) ==
    PyRound(FAdd(FMulInt(FRatio(1, 10), unique), FMulInt(FRatio(5, 1000), total)), 100)

\* line 10: round(10 + 0.1 * unique_materials + 0.005 * total_thickness, 2)
Pce(total, unique) ==
    PyRound(FAdd(FAdd(FInt(10), FMulInt(FRatio(1, 10), unique)),
                 FMulInt(FRatio(5, 1000), total)), 100)

\* line 11: round(0.6 + 0.01 * unique_materials, 2)
Voc(unique) == PyRound(FAdd(FRatio(6, 10), FMulInt(FRatio(1, 100), unique)), 100)

\* line 12: round(20 + 0.02 * total_thickness, 1)
Jsc(total) == PyRound(FAdd(FInt(20), FMulInt(FRatio(2, 100), total)), 10)

\* One point too few (range(99)).
ElectricalShortCurve(total, unique) ==
    [pce |-> Pce(total, unique), voc |-> Voc(unique), jsc |-> Jsc(total),
     iv_curve |-> SubSeq(IvCurve(total), 1, IvPoints - 1)]

\* lines 14-19: the returned dict.
ElectricalResult(total, unique) ==
    [pce |-> Pce(total, unique), voc |-> Voc(unique), jsc |-> Jsc(total),
     iv_curve |-> IvCurve(total)]

simulate_electrical(stack) ==
    ElectricalResult(total_thickness(stack), unique_materials(stack))

(***************************************************************************)
(* src/app.py: the script Streamlit runs from top to bottom after every    *)
(* interaction of the user with a widget.                                  *)
(***************************************************************************)
\* An optional value: None, or a value that is there.
None == << >>
Some(x) == <<x>>
IsSome(o) == Len(o) = 1

\* line 13
layer_roles == <<"TCO", "ETL", "Absorber", "HTL", "Back Contact", "Encapsulation">>

\* lines 14-21
material_options ==
    ("TCO" :> <<"ITO", "FTO", "AZO">>) @@
    ("ETL" :> <<"TiO2", "SnO2", "ZnO">>) @@
    ("Absorber" :> <<"Si", "Perovskite", "CIGS", "CdTe">>) @@
    ("HTL" :> <<"Spiro-OMeTAD", "NiO", "CuSCN">>) @@
    ("Back Contact" :> <<"Al", "Ag", "Au", "Mo">>) @@
    ("Encapsulation" :> <<"Glass-Polymer", "Polymeric Coating">>)

\* line 23: st.slider("Number of Layers", 2, len(layer_roles))
MinLayers == 2
MaxLayers == Len(layer_roles)

\* line 32: st.number_input(..., 10, 1000, ...)
MinThickness == 10
MaxThickness == 1000

\* The thicknesses the user enters in the model: both ends of the accepted
\* range and an odd value.
ThicknessChoices == {MinThickness, MinThickness + 1, MaxThickness}

\* The number of interactions of the user in one session.
MaxInteractions == 3

Options(role) == {material_options[role][k] : k \in 1..Len(material_options[role])}

\* simulator/meterilaDB.py is not among the sources: the lookup is a fixed
\* function of the material, and what the store holds is left open.
get_material_properties(material) ==
    [bandgap |-> <<"bandgap", material>>, toxicity |-> <<"toxicity", material>>]

\* simulator/optic.py is not among the sources: the optical model is a pure
\* function of the stack, and the curve it computes is left open.
calculate_absorption(stack) == [qe |-> <<"qe", stack>>]

\* The widgets' values before the user touches them: the slider at its
\* minimum, each selectbox at its first option, each number_input at its
\* minimum, the checkbox clear.  mat and th are indexed by the loop's i.
DefaultMaterial(idx) == material_options[layer_roles[idx + 1]][1]
DefaultWidgets ==
    [num_layers |-> MinLayers,
     mat        |-> [idx \in 0..(MaxLayers - 1) |-> DefaultMaterial(idx)],
     th         |-> [idx \in 0..(MaxLayers - 1) |-> MinThickness],
     optimize   |-> FALSE,
     button     |-> FALSE]

VARIABLES
    widgets,            \* the session's widget values; button: this run follows a click
    interactions,       \* interactions of the user so far
    pc,                 \* the script's position
    num_layers,         \* line 23
    i,                  \* the loop's next index (line 27)
    layers,             \* line 24
    tco, etl,           \* lines 56-57
    feasibility,        \* the message of lines 59-62
    optimize,           \* line 64
    info,               \* whether line 68's message is shown
    optical_result,     \* line 71
    electrical_result,  \* line 72
    results,            \* lines 74-80
    file,               \* result/simulation_output.json
    writes,             \* json.dump calls of this run
    lastRun             \* history: the input and checkbox of the run that wrote file

vars == <<widgets, interactions, pc, num_layers, i, layers, tco, etl, feasibility,
          optimize, info, optical_result, electrical_result, results, file, writes,
          lastRun>>

\* What a script run computes from: the rendered widgets of the stack.
StackInput(w) == [num_layers |-> w.num_layers, mat |-> w.mat, th |-> w.th]

(***************************************************************************)
(* Lines 27-44, one iteration: the layer appended for index idx.           *)
(***************************************************************************)
\* The roles taken from the end of the list.
BuildLayerReversed(idx, material, thickness) ==
    [role      |-> layer_roles[MaxLayers - idx],
     material  |-> material,
     thickness |-> thickness,
     toxicity  |-> get_material_properties(material).toxicity]

BuildLayer(idx, material, thickness) ==
    [role      |-> layer_roles[idx + 1],
     material  |-> material,
     thickness |-> thickness,
     toxicity  |-> get_material_properties(material).toxicity]

(***************************************************************************)
(* Lines 54-62: the feasibility check.                                     *)
(***************************************************************************)
\* The whitelist without its last pair.
valid_pairs_short == {<<"FTO", "TiO2">>, <<"FTO", "SnO2">>}

\* line 55
valid_pairs == {<<"FTO", "TiO2">>, <<"FTO", "SnO2">>, <<"AZO", "ZnO">>}

\* lines 56-57: next((l for l in layers if l["role"] == role), None)
FirstWithRole(stack, role) ==
    IF \E k \in 1..Len(stack) : stack[k].role = role
    THEN Some(stack[CHOOSE k \in 1..Len(stack) :
                       /\ stack[k].role = role
                       /\ \A j \in 1..(k - 1) : stack[j].role # role])
    ELSE None

\* lines 59-62: a layer dict is truthy, None is not.
FeasibilityOf(t, e) ==
    IF IsSome(t) /\ IsSome(e) /\ <<t[1].material, e[1].material>> \notin valid_pairs
    THEN [passed |-> FALSE, pair |-> <<t[1].material, e[1].material>>]
    ELSE [passed |-> TRUE, pair |-> << >>]

FeasibilityCheck(stack) ==
    FeasibilityOf(FirstWithRole(stack, "TCO"), FirstWithRole(stack, "ETL"))

(***************************************************************************)
(* Lines 66-83: Run Simulation.                                            *)
(***************************************************************************)
\* The run is skipped when the feasibility check failed.
RunOnlyIfFeasible == widgets.button /\ feasibility[1].passed

\* line 66: st.button is True in the run that follows a click.
RunRequested == widgets.button

\* An optimisation that thickens the first layer.
OptimizedThicker(stack, opt) ==
    IF opt /\ Len(stack) > 0
    THEN [stack EXCEPT ![1].thickness = MaxThickness]
    ELSE stack

\* lines 67-69: the placeholder shows a message and leaves the stack alone.
OptimizedStack(stack, opt) == stack

\* voc and jsc exchanged.
AssembleSwapped(optical, electrical) ==
    [pce                |-> electrical.pce,
     voc                |-> electrical.jsc,
     jsc                |-> electrical.voc,
     iv_curve           |-> electrical.iv_curve,
     quantum_efficiency |-> optical.qe]

\* lines 74-80
AssembleResults(optical, electrical) ==
    [pce                |-> electrical.pce,
     voc                |-> electrical.voc,
     jsc                |-> electrical.jsc,
     iv_curve           |-> electrical.iv_curve,
     quantum_efficiency |-> optical.qe]

\* A module-level total that is not reset between calls.
SimulateAccumulating(stack) ==
    ElectricalResult(total_thickness(stack) +
                        (IF IsSome(file) THEN MinThickness ELSE 0),
                     unique_materials(stack))

\* line 72
CallElectrical(stack) == simulate_electrical(stack)

(***************************************************************************)
(* The script run, statement by statement.                                 *)
(***************************************************************************)
\* The names of a fresh script run: nothing is assigned yet.
FreshRun ==
    /\ pc = "start"
    /\ num_layers = 0
    /\ i = 0
    /\ layers = << >>
    /\ tco = None
    /\ etl = None
    /\ feasibility = None
    /\ optimize = FALSE
    /\ info = FALSE
    /\ optical_result = None
    /\ electrical_result = None
    /\ results = None
    /\ writes = 0

Init ==
    /\ widgets = DefaultWidgets
    /\ interactions = 0
    /\ file = None
    /\ lastRun = None
    /\ FreshRun

\* lines 23-24
ReadSlider ==
    /\ pc = "start"
    /\ num_layers' = widgets.num_layers
    /\ layers' = << >>
    /\ i' = 0
    /\ pc' = "loop"
    /\ UNCHANGED <<widgets, interactions, tco, etl, feasibility, optimize, info,
                   optical_result, electrical_result, results, file, writes, lastRun>>

\* lines 27-44: one iteration of the loop
LoopBody ==
    /\ pc = "loop"
    /\ i < num_layers
    /\ layers' = Append(layers, BuildLayer(i, widgets.mat[i], widgets.th[i]))
    /\ i' = i + 1
    /\ UNCHANGED <<widgets, interactions, pc, num_layers, tco, etl, feasibility,
                   optimize, info, optical_result, electrical_result, results, file,
                   writes, lastRun>>

\* line 27, range(num_layers) exhausted; lines 46-52 show the table
LoopExit ==
    /\ pc = "loop"
    /\ i >= num_layers
    /\ pc' = "feasibility"
    /\ UNCHANGED <<widgets, interactions, num_layers, i, layers, tco, etl,
                   feasibility, optimize, info, optical_result, electrical_result,
                   results, file, writes, lastRun>>

\* lines 54-62
FeasibilityStep ==
    /\ pc = "feasibility"
    /\ tco' = FirstWithRole(layers, "TCO")
    /\ etl' = FirstWithRole(layers, "ETL")
    /\ feasibility' = Some(FeasibilityCheck(layers))
    /\ pc' = "checkbox"
    /\ UNCHANGED <<widgets, interactions, num_layers, i, layers, optimize, info,
                   optical_result, electrical_result, results, file, writes, lastRun>>

\* line 64
ReadCheckbox ==
    /\ pc = "checkbox"
    /\ optimize' = widgets.optimize
    /\ pc' = "button"
    /\ UNCHANGED <<widgets, interactions, num_layers, i, layers, tco, etl,
                   feasibility, info, optical_result, electrical_result, results,
                   file, writes, lastRun>>

\* line 66
ReadButton ==
    /\ pc = "button"
    /\ pc' = IF RunRequested THEN "optimize" ELSE "done"
    /\ UNCHANGED <<widgets, interactions, num_layers, i, layers, tco, etl,
                   feasibility, optimize, info, optical_result, electrical_result,
                   results, file, writes, lastRun>>

\* lines 67-69
OptimizeStep ==
    /\ pc = "optimize"
    /\ info' = optimize
    /\ layers' = OptimizedStack(layers, optimize)
    /\ pc' = "optical"
    /\ UNCHANGED <<widgets, interactions, num_layers, i, tco, etl, feasibility,
                   optimize, optical_result, electrical_result, results, file,
                   writes, lastRun>>

\* line 71
OpticalStep ==
    /\ pc = "optical"
    /\ optical_result' = Some(calculate_absorption(layers))
    /\ pc' = "electrical"
    /\ UNCHANGED <<widgets, interactions, num_layers, i, layers, tco, etl,
                   feasibility, optimize, info, electrical_result, results, file,
                   writes, lastRun>>

\* line 72
ElectricalStep ==
    /\ pc = "electrical"
    /\ electrical_result' = Some(CallElectrical(layers))
    /\ pc' = "assemble"
    /\ UNCHANGED <<widgets, interactions, num_layers, i, layers, tco, etl,
                   feasibility, optimize, info, optical_result, results, file,
                   writes, lastRun>>

\* lines 74-80
AssembleStep ==
    /\ pc = "assemble"
    /\ results' = Some(AssembleResults(optical_result[1], electrical_result[1]))
    /\ pc' = "write"
    /\ UNCHANGED <<widgets, interactions, num_layers, i, layers, tco, etl,
                   feasibility, optimize, info, optical_result, electrical_result,
                   file, writes, lastRun>>

\* lines 82-83: the record is dumped to the file; open() raises OSError when
\* the directory result/ is not there, and the run ends with the exception.
\* Lines 85-155 draw the results and assign nothing the script reads again.
WriteStep ==
    /\ pc = "write"
    /\ \/ /\ file' = Some(results[1])
          /\ writes' = writes + 1
          /\ lastRun' = Some([input |-> StackInput(widgets), optimize |-> optimize])
          /\ pc' = "done"
       \/ /\ pc' = "crashed"
          /\ UNCHANGED <<file, writes, lastRun>>
    /\ UNCHANGED <<widgets, interactions, num_layers, i, layers, tco, etl,
                   feasibility, optimize, info, optical_result, electrical_result,
                   results>>

(***************************************************************************)
(* The user: each interaction with a widget stores its value and makes     *)
(* Streamlit run the script again from the top, in a fresh namespace; the  *)
(* file stays.  The user acts when the script run has ended.               *)
(***************************************************************************)
Rerun(w) ==
    /\ pc \in {"done", "crashed"}
    /\ interactions < MaxInteractions
    /\ widgets' = w
    /\ interactions' = interactions + 1
    /\ pc' = "start"
    /\ num_layers' = 0
    /\ i' = 0
    /\ layers' = << >>
    /\ tco' = None
    /\ etl' = None
    /\ feasibility' = None
    /\ optimize' = FALSE
    /\ info' = FALSE
    /\ optical_result' = None
    /\ electrical_result' = None
    /\ results' = None
    /\ writes' = 0
    /\ UNCHANGED <<file, lastRun>>

\* The slider; a widget that is no longer drawn loses its stored value.
MoveSlider ==
    \E n \in MinLayers..MaxLayers :
        /\ n # widgets.num_layers
        /\ Rerun([widgets EXCEPT
                    !.num_layers = n,
                    !.mat = [idx \in 0..(MaxLayers - 1) |->
                                IF idx < n THEN widgets.mat[idx] ELSE DefaultMaterial(idx)],
                    !.th = [idx \in 0..(MaxLayers - 1) |->
                                IF idx < n THEN widgets.th[idx] ELSE MinThickness],
                    !.button = FALSE])

SelectMaterial ==
    \E idx \in 0..(widgets.num_layers - 1) :
        \E m \in Options(layer_roles[idx + 1]) :
            /\ m # widgets.mat[idx]
            /\ Rerun([widgets EXCEPT !.mat[idx] = m, !.button = FALSE])

EnterThickness ==
    \E idx \in 0..(widgets.num_layers - 1) :
        \E t \in ThicknessChoices :
            /\ t # widgets.th[idx]
            /\ Rerun([widgets EXCEPT !.th[idx] = t, !.button = FALSE])

ToggleOptimize ==
    Rerun([widgets EXCEPT !.optimize = ~widgets.optimize, !.button = FALSE])

ClickRunSimulation ==
    Rerun([widgets EXCEPT !.button = TRUE])

Next ==
    \/ ReadSlider
    \/ LoopBody
    \/ LoopExit
    \/ FeasibilityStep
    \/ ReadCheckbox
    \/ ReadButton
    \/ OptimizeStep
    \/ OpticalStep
    \/ ElectricalStep
    \/ AssembleStep
    \/ WriteStep
    \/ MoveSlider
    \/ SelectMaterial
    \/ EnterThickness
    \/ ToggleOptimize
    \/ ClickRunSimulation

Spec == Init /\ [][Next]_vars

(***************************************************************************)
(* The functions on their own: a caller hands simulate_electrical or the   *)
(* feasibility check a stack, with no script run around the call.          *)
(***************************************************************************)
\* The stack the loop of lines 27-44 builds from the widgets w.
BuiltStack(w) ==
    [k \in 1..w.num_layers |-> BuildLayer(k - 1, w.mat[k - 1], w.th[k - 1])]

\* The default stack of n layers, the Absorber (if any) of thickness a and
\* the other layers of thickness t.
UniformStack(n, t, a) ==
    [k \in 1..n |->
        BuildLayer(k - 1, DefaultMaterial(k - 1),
                   IF layer_roles[k] = "Absorber" THEN a ELSE t)]

\* Everything but pc, layers and the values the call assigns is idle.
CallOnly(position) ==
    /\ pc = position
    /\ widgets = DefaultWidgets
    /\ interactions = 0
    /\ num_layers = 0
    /\ i = 0
    /\ optimize = FALSE
    /\ info = FALSE
    /\ optical_result = None
    /\ results = None
    /\ file = None
    /\ writes = 0
    /\ lastRun = None

(* The Absorber grows nanometre by nanometre through the accepted range. *)
SweepInit ==
    /\ CallOnly("sweep")
    /\ \E n \in 3..MaxLayers : \E t \in {MinThickness, MaxThickness} :
          layers = UniformStack(n, t, MinThickness)
    /\ tco = None
    /\ etl = None
    /\ feasibility = None
    /\ electrical_result = Some(CallElectrical(layers))

SweepThicken ==
    /\ pc = "sweep"
    /\ layers[3].thickness < MaxThickness
    /\ layers' = [layers EXCEPT ![3].thickness = @ + 1]
    /\ electrical_result' = Some(CallElectrical(layers'))
    /\ UNCHANGED <<widgets, interactions, pc, num_layers, i, tco, etl, feasibility,
                   optimize, info, optical_result, results, file, writes, lastRun>>

SweepNext == SweepThicken

SweepSpec == SweepInit /\ [][SweepNext]_vars

(* A two-layer stack whose layers double in thickness, past the range the  *)
(* number_input accepts: simulate_electrical takes any list of layers.     *)
EngineMaxThickness == 20000

ThickInit ==
    /\ CallOnly("thick")
    /\ layers = UniformStack(MinLayers, MinThickness, MinThickness)
    /\ tco = None
    /\ etl = None
    /\ feasibility = None
    /\ electrical_result = Some(CallElectrical(layers))

ThickDouble ==
    /\ pc = "thick"
    /\ \E k \in 1..Len(layers) :
          /\ 2 * layers[k].thickness <= EngineMaxThickness
          /\ layers' = [layers EXCEPT ![k].thickness = 2 * @]
    /\ electrical_result' = Some(CallElectrical(layers'))
    /\ UNCHANGED <<widgets, interactions, pc, num_layers, i, tco, etl, feasibility,
                   optimize, info, optical_result, results, file, writes, lastRun>>

ThickNext == ThickDouble

ThickSpec == ThickInit /\ [][ThickNext]_vars

(* The feasibility check on stacks that hold any of the first FeasRoles    *)
(* roles, in the canonical order, each with any of its materials.          *)
FeasRoles == 3

RECURSIVE Ascending(_)
Ascending(S) ==
    IF S = {} THEN << >>
    ELSE <<CHOOSE x \in S : \A y \in S : x <= y>> \o
         Ascending(S \ {CHOOSE x \in S : \A y \in S : x <= y})

StackOfRoles(order, mat) ==
    [k \in 1..Len(order) |-> BuildLayer(order[k] - 1, mat[order[k]], MinThickness)]

AllMaterials == UNION {Options(layer_roles[r]) : r \in 1..MaxLayers}

FeasStacks ==
    {StackOfRoles(Ascending(S), mat) :
        <<S, mat>> \in {p \in (SUBSET (1..FeasRoles)) \X [1..FeasRoles -> AllMaterials] :
                          \A r \in 1..FeasRoles :
                              IF r \in p[1] THEN p[2][r] \in Options(layer_roles[r])
                              ELSE p[2][r] = DefaultMaterial(r - 1)}}

FeasInit ==
    /\ CallOnly("feasibility")
    /\ layers \in FeasStacks
    /\ tco = None
    /\ etl = None
    /\ feasibility = None
    /\ electrical_result = None

FeasNext == FeasibilityStep

FeasSpec == FeasInit /\ [][FeasNext]_vars

(***************************************************************************)
(* The properties.                                                         *)
(***************************************************************************)
\* The material of the stack's layer of the given role (there is one).
MaterialOfRole(stack, role) ==
    stack[CHOOSE k \in 1..Len(stack) : stack[k].role = role].material

HasRole(stack, role) == \E k \in 1..Len(stack) : stack[k].role = role

\* C1: the feasibility check passes exactly when the stack has no TCO layer,
\* or no ETL layer, or its (TCO material, ETL material) is one of (FTO,TiO2),
\* (FTO,SnO2), (AZO,ZnO); when it fails it reports exactly that pair.
C1_FeasibilityWhitelist ==
    IsSome(feasibility) =>
        /\ feasibility[1].passed <=>
              \/ ~HasRole(layers, "TCO")
              \/ ~HasRole(layers, "ETL")
              \/ <<MaterialOfRole(layers, "TCO"), MaterialOfRole(layers, "ETL")>> \in
                    {<<"FTO", "TiO2">>, <<"FTO", "SnO2">>, <<"AZO", "ZnO">>}
        /\ ~feasibility[1].passed =>
              feasibility[1].pair =
                 <<MaterialOfRole(layers, "TCO"), MaterialOfRole(layers, "ETL")>>

\* The check has failed on (ITO, ZnO) and reports that pair.
C1_Witness ==
    /\ IsSome(feasibility)
    /\ ~feasibility[1].passed
    /\ feasibility[1].pair = <<"ITO", "ZnO">>
    /\ HasRole(layers, "Absorber")

\* C2: a call with a strictly thicker Absorber, all else equal, returns a
\* rounded pce and a rounded jsc not below those of the call before it.  The
\* sweep compares each thickness of 10..1000 with the next; >= is transitive.
C2_ThickerAbsorberNotWorse ==
    [][(pc = "sweep" /\ layers'[3].thickness > layers[3].thickness) =>
          /\ electrical_result'[1].pce >= electrical_result[1].pce
          /\ electrical_result'[1].jsc >= electrical_result[1].jsc]_vars

\* A strictly thicker Absorber whose rounded pce equals that of the stack one
\* nanometre thinner, and whose jsc is higher.
C2_Witness ==
    /\ pc = "sweep"
    /\ layers[3].thickness > MinThickness
    /\ electrical_result[1].pce = Pce(total_thickness(layers) - 1, unique_materials(layers))
    /\ electrical_result[1].jsc > Jsc(total_thickness(layers) - 1)

\* C3: pce, a percentage, stays below a bound that does not depend on the
\* stack: here 100 %, in hundredths.
C3_PceBounded ==
    (pc = "thick" /\ IsSome(electrical_result)) => electrical_result[1].pce <= 100 * 100

\* C4: the iv_curve returned for a stack, and the one in the result record,
\* has exactly 100 points.
C4_IvCurveLength ==
    /\ IsSome(electrical_result) => Len(electrical_result[1].iv_curve) = 100
    /\ IsSome(results) => Len(results[1].iv_curve) = 100

\* A run on six layers has returned its curve.
C4_Witness ==
    /\ pc = "done"
    /\ Len(layers) = MaxLayers
    /\ IsSome(results)
    /\ Len(results[1].iv_curve) = 100

\* C5: once Run Simulation is clicked the run goes through both models and
\* produces the result record whether the feasibility check passed or not,
\* and the record is the one the stack alone determines.
C5_FeasibilityAdvisory ==
    (pc \in {"done", "crashed"} /\ widgets.button) =>
        /\ IsSome(optical_result)
        /\ IsSome(electrical_result)
        /\ IsSome(results)
        /\ results[1] = AssembleResults(optical_result[1],
                                        simulate_electrical(BuiltStack(widgets)))

\* A run whose feasibility check failed has produced and written its record.
C5_Witness ==
    /\ pc = "done"
    /\ widgets.button
    /\ ~feasibility[1].passed
    /\ IsSome(results)
    /\ file = results

\* C6: during the loop and after it the stack's roles are a prefix of TCO,
\* ETL, Absorber, HTL, Back Contact, Encapsulation, no role occurs twice, each
\* material is one of its role's, and the finished stack has 2 to 6 layers.
C6_CanonicalStack ==
    /\ Len(layers) <= 6
    /\ \A k \in 1..Len(layers) :
          /\ layers[k].role =
                <<"TCO", "ETL", "Absorber", "HTL", "Back Contact", "Encapsulation">>[k]
          /\ layers[k].material \in Options(layers[k].role)
    /\ \A j, k \in 1..Len(layers) : layers[j].role = layers[k].role => j = k
    /\ pc \notin {"start", "loop"} => Len(layers) >= 2

\* The loop has built all six layers, one of them with an edited material.
C6_Witness ==
    /\ pc = "feasibility"
    /\ Len(layers) = 6
    /\ \E k \in 1..6 : layers[k].material # DefaultMaterial(k - 1)

\* C7: a run writes the record at most once and only after both models have
\* returned; a completed Run Simulation has written it exactly once, with
\* exactly the five keys, pce, voc, jsc and iv_curve as simulate_electrical
\* returns them for the stack and quantum_efficiency the optical model's qe.
C7_WrittenOnce ==
    /\ writes <= 1
    /\ writes = 1 => (IsSome(optical_result) /\ IsSome(electrical_result) /\ IsSome(results))
    /\ (pc = "done" /\ ~widgets.button) => writes = 0
    /\ (pc = "done" /\ widgets.button) =>
          /\ writes = 1
          /\ IsSome(file)
          /\ DOMAIN file[1] = {"pce", "voc", "jsc", "iv_curve", "quantum_efficiency"}
          /\ electrical_result[1] = simulate_electrical(layers)
          /\ file[1].pce = electrical_result[1].pce
          /\ file[1].voc = electrical_result[1].voc
          /\ file[1].jsc = electrical_result[1].jsc
          /\ file[1].iv_curve = electrical_result[1].iv_curve
          /\ file[1].quantum_efficiency = optical_result[1].qe

\* A completed Run Simulation on a stack with an edited thickness.
C7_Witness ==
    /\ pc = "done"
    /\ widgets.button
    /\ writes = 1
    /\ \E k \in 1..Len(layers) : layers[k].thickness = MaxThickness

\* C8: on a valid stack the call returns (the script is past line 72 with a
\* result) and the result has pce >= 10, voc >= 0.6 and jsc >= 20
\* (hundredths, hundredths, tenths).
C8_PositiveResults ==
    /\ pc \in {"assemble", "write"} => IsSome(electrical_result)
    /\ IsSome(electrical_result) =>
          /\ electrical_result[1].pce >= 10 * 100
          /\ electrical_result[1].voc >= 60
          /\ electrical_result[1].jsc >= 20 * 10

\* The thinnest valid stack: two layers of 10 nm give 10.3, 0.62 and 20.4.
C8_Witness ==
    /\ pc = "assemble"
    /\ total_thickness(layers) = 2 * MinThickness
    /\ electrical_result[1].pce = 1030
    /\ electrical_result[1].voc = 62
    /\ electrical_result[1].jsc = 204

\* The four values simulate_electrical returns.
ElectricalFields(r) ==
    [pce |-> r.pce, voc |-> r.voc, jsc |-> r.jsc, iv_curve |-> r.iv_curve]

SameInputAsLastRun == IsSome(lastRun) /\ lastRun[1].input = StackInput(widgets)

\* C9: a run on the stack an earlier run had is about to write the pce, voc,
\* jsc and iv_curve that run wrote, and the call has left the stack as built.
C9_Deterministic ==
    /\ (pc = "write" /\ SameInputAsLastRun) =>
          ElectricalFields(results[1]) = ElectricalFields(file[1])
    /\ pc = "assemble" => layers = BuiltStack(widgets)

\* A second run on a stack with an edited layer is about to write.
C9_Witness ==
    /\ pc = "write"
    /\ SameInputAsLastRun
    /\ StackInput(widgets) # StackInput(DefaultWidgets)

\* C10: a run with the checkbox in the other position than the earlier run on
\* the same stack is about to write the record that run wrote, and the stack
\* is as built after the optimisation branch.
C10_OptimizeNoEffect ==
    /\ (pc = "write" /\ SameInputAsLastRun /\ lastRun[1].optimize # optimize) =>
          results[1] = file[1]
    /\ pc \in {"optical", "electrical", "write", "done", "crashed"} =>
          layers = BuiltStack(widgets)

\* A run with optimisation enabled, after one on the same stack without it.
C10_Witness ==
    /\ pc = "write"
    /\ optimize
    /\ info
    /\ SameInputAsLastRun
    /\ ~lastRun[1].optimize

=============================================================================
